---- MODULE Spec2Model ----
(***************************************************************************)
(* Model of density_and_bearing_cap.py: the regolith compression script.   *)
(*                                                                         *)
(* The script has no inputs; its configuration is a block of module-level  *)
(* constants that the author edits by hand (scenario, vehicle mass, wheel  *)
(* width, spread angle, max_depth).  The model draws that configuration    *)
(* from small sets that contain the values of the source and a few edited  *)
(* ones, and then runs the script statement by statement.                  *)
(*                                                                         *)
(* Python floats are modelled as fixed-point integers, every division      *)
(* truncating:                                                             *)
(*   mass                 tenths of a kg                                   *)
(*   force                hundredths of a Newton                           *)
(*   length (edge)        1/10000 cm                                       *)
(*   pressure             1/1000 N/cm2                                     *)
(*   density, thickness   1/1000 g/cm3, 1/1000 cm                          *)
(* The print() calls that only trace values are left out; the messages     *)
(* that tell how the run ended are kept in stdout.                         *)
(***************************************************************************)
EXTENDS Integers, Sequences, FiniteSets

VARIABLES
    pc,                       \* position in the script
    scenario,                 \* line 54
    angle_of_force_spread,    \* line 84
    max_depth,                \* line 119
    vehicle_name, mass_of_vehicle, wheel_width, n_wheels,
    force_per_wheel, force_spread,
    density, bearing_cap,     \* the two profile lists
    depth,                    \* the loop variable of both for-loops
    next_depth,               \* position of the running range() iterator
    compressed_layers,
    total_compression, first_uncompressed_layer,
    max_pressure, min_pressure,
    support_footprint_edge,
    downward_force, support,
    stdout, error, exit_status, image_written

vars == << pc, scenario, angle_of_force_spread, max_depth,
           vehicle_name, mass_of_vehicle, wheel_width, n_wheels,
           force_per_wheel, force_spread, density, bearing_cap,
           depth, next_depth, compressed_layers,
           total_compression, first_uncompressed_layer,
           max_pressure, min_pressure, support_footprint_edge,
           downward_force, support,
           stdout, error, exit_status, image_written >>

(***************************************************************************)
(* Bounds of the model and the configuration it draws.                     *)
(***************************************************************************)
\* max_depth is drawn from 1..MaxDepthBound; the source sets 30.
MaxDepthBound == 30

\* A value a Python name has before its first assignment.
Unset == "unset"

\* scenario: the two names of the source and one that is neither.
ScenarioChoices == {"Moon_Buggy", "PP&L", "Tractor"}

\* mass_of_vehicle (tenths of a kg): the value of the branch, 7.5 kg, 40 t.
MassChoices(branch_mass) == {branch_mass, 75, 400000}

\* wheel_width (cm): the value of the branch, and a 1 cm blade.
WidthChoices(branch_width) == {branch_width, 1}

\* angle_of_force_spread (degrees): the source's 5, and no spreading.
AngleChoices == {0, 5}

(***************************************************************************)
(* Constants of the source.                                                *)
(***************************************************************************)
lunar_gravity == 16            \* 1.6, in tenths
grain_density == 2000          \* 2.0 g/cm3
min_bearing_cap == 30          \* 0.03 N/cm2
\* 65.0 / 30, in 1/1000000 N/cm2 per cm
bearing_per_cm == 65000000 \div 30
max_pressure_init == 0
min_pressure_init == 10000000  \* 10000 N/cm2

\* The names the import statements bind.
ImportedNames ==
    {"Image", "ImageDraw", "ImageFont", "ImageOps", "mpl", "math", "np",
     "line", "disk", "rectangle"}

\* math.tan(math.radians(a)) in 1/10000, at the angles the model draws:
\* tan(5 deg) = 0.08748866...
TanOfDegrees(a) == CASE a = 0 -> 0
                     [] a = 5 -> 875

(***************************************************************************)
(* The profile functions.                                                  *)
(***************************************************************************)
\* density = 1.89 * (depth + 1.69) / (depth + 2.9)
DensityAtDepth(d) == (1890 * (100 * d + 169)) \div (100 * d + 290)

\* bearing_cap = min_bearing_cap + depth * bearing_per_cm
BearingCapAtDepth(d) == min_bearing_cap + (d * bearing_per_cm) \div 1000

(***************************************************************************)
(* The expressions of the compression loop.                                *)
(***************************************************************************)
\* Mutant: the edge is not squared.
DownwardForceLinear(force, edge) == (force * 1000) \div (edge \div 100)

\* force_per_wheel / support_footprint_edge ** 2
DownwardForce(force, edge) ==
    (force * 1000) \div (((edge \div 10) * (edge \div 10)) \div 10000)

\* if downward_force > max_pressure : max_pressure = downward_force
UpdateMaxPressure(maxp, force) == IF force > maxp THEN force ELSE maxp

\* Mutant: the comparison of the minimum is turned around.
UpdateMinPressureTurned(minp, force) == IF force > minp THEN force ELSE minp

\* if downward_force < min_pressure : min_pressure = downward_force
UpdateMinPressure(minp, force) == IF force < minp THEN force ELSE minp

\* Mutant: the tie collapses (> for >=).
LoadIsSupportedStrict(sup, force) == sup > force

\* if support >= downward_force
LoadIsSupported(sup, force) == sup >= force

\* Mutant: the quotient is turned around.
NewLayerThicknessInverted(pre_collapse_density) ==
    (grain_density * 1000) \div pre_collapse_density

\* new_layer_thickness = pre_collapse_density / grain_density
NewLayerThickness(pre_collapse_density) ==
    (pre_collapse_density * 1000) \div grain_density

\* Mutant: the thickness is added, not the loss of thickness.
AddCompressionOfThickness(total, new_layer_thickness) ==
    total + new_layer_thickness

\* total_compression += (1.0 - new_layer_thickness)
AddCompression(total, new_layer_thickness) ==
    total + (1000 - new_layer_thickness)

\* Mutant: the footprint shrinks.
GrowFootprintShrinking(edge, spread) == edge - 2 * spread

\* support_footprint_edge += 2 * force_spread
GrowFootprint(edge, spread) == edge + 2 * spread

(***************************************************************************)
(* Initial state: the configuration is chosen, nothing has run.            *)
(***************************************************************************)
Init ==
    /\ pc = "scenario"
    /\ scenario \in ScenarioChoices
    /\ angle_of_force_spread \in AngleChoices
    /\ max_depth \in 1..MaxDepthBound
    /\ vehicle_name = Unset
    /\ mass_of_vehicle = 0
    /\ wheel_width = 0
    /\ n_wheels = 0
    /\ force_per_wheel = 0
    /\ force_spread = 0
    /\ density = << >>
    /\ bearing_cap = << >>
    /\ depth = 0
    /\ next_depth = 0
    /\ compressed_layers = << >>
    /\ total_compression = 0
    /\ first_uncompressed_layer = 0
    /\ max_pressure = 0
    /\ min_pressure = 0
    /\ support_footprint_edge = 0
    /\ downward_force = 0
    /\ support = 0
    /\ stdout = << >>
    /\ error = "none"
    /\ exit_status = -1
    /\ image_written = FALSE

\* An uncaught exception: the traceback is printed and the interpreter
\* ends with status 1.
Raise(exception) ==
    /\ pc' = "exited"
    /\ error' = exception
    /\ exit_status' = 1

\* sys.exit(1): SystemExit(1) when sys is bound, NameError when it is not.
SysExit ==
    IF "sys" \in ImportedNames THEN /\ pc' = "exited"
                                    /\ error' = "SystemExit"
                                    /\ exit_status' = 1
                               ELSE Raise("NameError")

\* A branch of the scenario selection that sets the vehicle.
SetVehicle(name, branch_mass, branch_width, wheels) ==
    /\ vehicle_name' = name
    /\ mass_of_vehicle' \in MassChoices(branch_mass)
    /\ wheel_width' \in WidthChoices(branch_width)
    /\ n_wheels' = wheels
    /\ pc' = "forces"
    /\ UNCHANGED << stdout, error, exit_status >>

\* Mutant: an unknown scenario falls through to the bulldozer.
SelectScenarioWithDefault ==
    /\ pc = "scenario"
    /\ IF scenario = "Moon_Buggy"
         THEN SetVehicle("Apollo Rover", 6600, 15, 4)
         ELSE SetVehicle("PP&L Bulldozer", 60000, 10, 4)
    /\ UNCHANGED << scenario, angle_of_force_spread, max_depth,
                    force_per_wheel, force_spread, density, bearing_cap,
                    depth, next_depth, compressed_layers,
                    total_compression, first_uncompressed_layer,
                    max_pressure, min_pressure, support_footprint_edge,
                    downward_force, support, image_written >>

\* Lines 59-73.
SelectScenario ==
    /\ pc = "scenario"
    /\ IF scenario = "Moon_Buggy"
         THEN SetVehicle("Apollo Rover", 6600, 15, 4)
         ELSE IF scenario = "PP&L"
                THEN SetVehicle("PP&L Bulldozer", 60000, 10, 4)
                ELSE /\ stdout' = Append(stdout, "Bad scenario!")
                     /\ SysExit
                     /\ UNCHANGED << vehicle_name, mass_of_vehicle,
                                     wheel_width, n_wheels >>
    /\ UNCHANGED << scenario, angle_of_force_spread, max_depth,
                    force_per_wheel, force_spread, density, bearing_cap,
                    depth, next_depth, compressed_layers,
                    total_compression, first_uncompressed_layer,
                    max_pressure, min_pressure, support_footprint_edge,
                    downward_force, support, image_written >>

\* Lines 77-85, and the start of the profile loop (lines 119-123).
ForceModel ==
    /\ pc = "forces"
    /\ LET force_to_support == mass_of_vehicle * lunar_gravity
       IN  force_per_wheel' = force_to_support \div n_wheels
    /\ force_spread' = TanOfDegrees(angle_of_force_spread)
    /\ next_depth' = 0
    /\ pc' = "profile"
    /\ UNCHANGED << scenario, angle_of_force_spread, max_depth,
                    vehicle_name, mass_of_vehicle, wheel_width, n_wheels,
                    density, bearing_cap, depth, compressed_layers,
                    total_compression, first_uncompressed_layer,
                    max_pressure, min_pressure, support_footprint_edge,
                    downward_force, support,
                    stdout, error, exit_status, image_written >>

\* One iteration of the profile loop, lines 123-127.
ProfileStep ==
    /\ pc = "profile"
    /\ next_depth < max_depth
    /\ depth' = next_depth
    /\ next_depth' = next_depth + 1
    /\ density' = Append(density, DensityAtDepth(next_depth))
    /\ bearing_cap' = Append(bearing_cap, BearingCapAtDepth(next_depth))
    /\ UNCHANGED << pc, scenario, angle_of_force_spread, max_depth,
                    vehicle_name, mass_of_vehicle, wheel_width, n_wheels,
                    force_per_wheel, force_spread, compressed_layers,
                    total_compression, first_uncompressed_layer,
                    max_pressure, min_pressure, support_footprint_edge,
                    downward_force, support,
                    stdout, error, exit_status, image_written >>

\* The profile loop is exhausted; lines 132 and 152-156 set up the
\* compression loop.
BeginCompression ==
    /\ pc = "profile"
    /\ next_depth = max_depth
    /\ compressed_layers' = << >>
    /\ total_compression' = 0
    /\ first_uncompressed_layer' = 0
    /\ max_pressure' = max_pressure_init
    /\ min_pressure' = min_pressure_init
    /\ support_footprint_edge' = wheel_width * 10000
    /\ next_depth' = 0
    /\ pc' = "compress"
    /\ UNCHANGED << scenario, angle_of_force_spread, max_depth,
                    vehicle_name, mass_of_vehicle, wheel_width, n_wheels,
                    force_per_wheel, force_spread, density, bearing_cap,
                    depth, downward_force, support,
                    stdout, error, exit_status, image_written >>

\* Mutant: the depth after the supporting one is recorded.
LayerSupportsOffByOne(d, force) ==
    /\ first_uncompressed_layer' = d + 1
    /\ stdout' = Append(stdout, "load is supported.")
    /\ pc' = "render"
    /\ UNCHANGED << next_depth, compressed_layers, total_compression,
                    support_footprint_edge >>

\* Lines 174-180: the layer holds; the loop is left by break.
LayerSupports(d, force) ==
    /\ first_uncompressed_layer' = d
    /\ stdout' = Append(stdout, "load is supported.")
    /\ pc' = "render"
    /\ UNCHANGED << next_depth, compressed_layers, total_compression,
                    support_footprint_edge >>

\* Lines 184-197: the layer collapses to grain density.
LayerCollapses(d, force) ==
    LET pre_collapse_density == density[d + 1]
        new_layer_thickness == NewLayerThickness(pre_collapse_density)
    IN  /\ total_compression' =
               AddCompression(total_compression, new_layer_thickness)
        /\ compressed_layers' =
               Append(compressed_layers,
                      << support_footprint_edge, new_layer_thickness, force >>)
        /\ support_footprint_edge' =
               GrowFootprint(support_footprint_edge, force_spread)
        /\ next_depth' = d + 1
        /\ UNCHANGED << pc, first_uncompressed_layer, stdout >>

\* One iteration of the compression loop, lines 158-197.
CompressStep ==
    /\ pc = "compress"
    /\ next_depth < max_depth
    /\ LET d == next_depth
           force == DownwardForce(force_per_wheel, support_footprint_edge)
           sup == bearing_cap[d + 1]
       IN  /\ depth' = d
           /\ downward_force' = force
           /\ max_pressure' = UpdateMaxPressure(max_pressure, force)
           /\ min_pressure' = UpdateMinPressure(min_pressure, force)
           /\ support' = sup
           /\ IF LoadIsSupported(sup, force)
                THEN LayerSupports(d, force)
                ELSE LayerCollapses(d, force)
    /\ UNCHANGED << scenario, angle_of_force_spread, max_depth,
                    vehicle_name, mass_of_vehicle, wheel_width, n_wheels,
                    force_per_wheel, force_spread, density, bearing_cap,
                    error, exit_status, image_written >>

\* range(max_depth) is exhausted: the loop ends without a break.
CompressExhausted ==
    /\ pc = "compress"
    /\ next_depth = max_depth
    /\ pc' = "render"
    /\ UNCHANGED << scenario, angle_of_force_spread, max_depth,
                    vehicle_name, mass_of_vehicle, wheel_width, n_wheels,
                    force_per_wheel, force_spread, density, bearing_cap,
                    depth, next_depth, compressed_layers,
                    total_compression, first_uncompressed_layer,
                    max_pressure, min_pressure, support_footprint_edge,
                    downward_force, support,
                    stdout, error, exit_status, image_written >>

\* Lines 206-336: the image.  The first loop reads density[0..11]; the
\* second divides by pressure_range for every compressed layer.
Render ==
    /\ pc = "render"
    /\ IF max_depth < 12
         THEN /\ Raise("IndexError")
              /\ UNCHANGED << stdout, image_written >>
         ELSE IF Len(compressed_layers) > 0 /\ max_pressure = min_pressure
                THEN /\ Raise("ZeroDivisionError")
                     /\ UNCHANGED << stdout, image_written >>
                ELSE /\ image_written' = TRUE
                     /\ stdout' = Append(stdout, "Wrote image to ./image.png")
                     /\ pc' = "done"
                     /\ exit_status' = 0
                     /\ UNCHANGED error
    /\ UNCHANGED << scenario, angle_of_force_spread, max_depth,
                    vehicle_name, mass_of_vehicle, wheel_width, n_wheels,
                    force_per_wheel, force_spread, density, bearing_cap,
                    depth, next_depth, compressed_layers,
                    total_compression, first_uncompressed_layer,
                    max_pressure, min_pressure, support_footprint_edge,
                    downward_force, support >>

Next ==
    \/ SelectScenario
    \/ ForceModel
    \/ ProfileStep
    \/ BeginCompression
    \/ CompressStep
    \/ CompressExhausted
    \/ Render

Spec == Init /\ [][Next]_vars

(***************************************************************************)
(* Vocabulary of the properties.                                           *)
(***************************************************************************)
\* The compression loop has been left (by break or by exhaustion).
AfterLoop ==
    /\ pc \in {"render", "done", "exited"}
    /\ Len(bearing_cap) = max_depth

\* The loop was left by break: line 179 printed its message.
StoppedBySupport ==
    /\ AfterLoop
    /\ \E i \in 1..Len(stdout) : stdout[i] = "load is supported."

\* The downward_force values computed so far: one per appended layer, and
\* the one of the last iteration, which downward_force still holds.
ComputedForces ==
    {compressed_layers[i][3] : i \in 1..Len(compressed_layers)}
        \cup {downward_force}

MaxOf(S) == CHOOSE x \in S : \A y \in S : y <= x
MinOf(S) == CHOOSE x \in S : \A y \in S : x <= y

RECURSIVE SumOfCompression(_)
SumOfCompression(layers) ==
    IF layers = << >> THEN 0
    ELSE (1000 - layers[Len(layers)][2])
             + SumOfCompression(SubSeq(layers, 1, Len(layers) - 1))

\* The heavy vehicle of the source, on a profile that holds depth 9.
HeavyVehicle ==
    /\ mass_of_vehicle = 60000
    /\ wheel_width = 10
    /\ n_wheels = 4
    /\ angle_of_force_spread = 5
    /\ max_depth > 9

(***************************************************************************)
(* C1: in an iteration of the compression loop a layer is appended only    *)
(* if bearing_cap[depth] < downward_force; when bearing_cap[depth] >=      *)
(* downward_force, equality included, nothing is appended, nothing is      *)
(* added to total_compression and the loop is left.                        *)
(***************************************************************************)
C1_CollapseOnlyWhenOverloaded ==
    [][ (pc = "compress" /\ next_depth < max_depth) =>
          /\ LET area == ((support_footprint_edge \div 10)
                             * (support_footprint_edge \div 10)) \div 10000
             IN  /\ downward_force' * area <= force_per_wheel * 1000
                 /\ force_per_wheel * 1000 < (downward_force' + 1) * area
          /\ (Len(compressed_layers') > Len(compressed_layers))
                => bearing_cap[next_depth + 1] < downward_force'
          /\ (bearing_cap[next_depth + 1] >= downward_force')
                => /\ compressed_layers' = compressed_layers
                   /\ total_compression' = total_compression
                   /\ pc' # "compress" ]_vars

\* The loop stopped on a tie: support equal to the load, nothing appended
\* at that depth.
C1_Witness ==
    /\ StoppedBySupport
    /\ support = downward_force
    /\ Len(compressed_layers) = first_uncompressed_layer

(***************************************************************************)
(* C2: with max_depth = 1 and bearing_cap[0] < downward_force at depth 0,  *)
(* the run raises DegenerateProfileError instead of leaving the loop with  *)
(* first_uncompressed_layer = 0.                                           *)
(***************************************************************************)
C2_DegenerateProfileRaises ==
    (/\ AfterLoop
     /\ max_depth = 1
     /\ bearing_cap[1] < downward_force)
        => error = "DegenerateProfileError"

(***************************************************************************)
(* C3: a scenario that is neither "Moon_Buggy" nor "PP&L" prints a         *)
(* diagnostic and ends the process with a non-zero status before any       *)
(* vehicle is set, any profile entry computed, any layer compressed or     *)
(* the image written.                                                      *)
(***************************************************************************)
C3_BadScenarioIsFatal ==
    (scenario \notin {"Moon_Buggy", "PP&L"} /\ pc # "scenario")
        => /\ pc = "exited"
           /\ exit_status > 0
           /\ stdout = << "Bad scenario!" >>
           /\ vehicle_name = Unset
           /\ density = << >>
           /\ bearing_cap = << >>
           /\ compressed_layers = << >>
           /\ ~image_written

C3_Witness ==
    /\ scenario = "Tractor"
    /\ pc = "exited"
    /\ exit_status = 1

(***************************************************************************)
(* C4: at every point of the run total_compression is the sum of           *)
(* (1 - compressedThickness) over the layers appended so far.              *)
(***************************************************************************)
C4_TotalIsSumOfLayers ==
    total_compression = SumOfCompression(compressed_layers)

C4_Witness ==
    /\ AfterLoop
    /\ Len(compressed_layers) >= 3
    /\ total_compression > 0

(***************************************************************************)
(* C5: every appended layer has a compressedThickness in [0, 1], and so    *)
(* would a layer at any depth of the generated profile: no density of the  *)
(* profile exceeds grain_density.                                          *)
(***************************************************************************)
C5_ThicknessAtMostOne ==
    /\ \A i \in 1..Len(compressed_layers) :
           /\ compressed_layers[i][2] >= 0
           /\ compressed_layers[i][2] <= 1000
    /\ \A i \in 1..Len(density) :
           /\ density[i] >= 0
           /\ density[i] <= grain_density

\* Every depth of the deepest profile has collapsed.
C5_Witness ==
    /\ AfterLoop
    /\ Len(compressed_layers) = MaxDepthBound

(***************************************************************************)
(* C6: support_footprint_edge starts at wheel_width, grows by              *)
(* 2 * force_spread after every collapsed layer, never decreases from one  *)
(* iteration to the next and strictly increases when force_spread > 0.     *)
(* The edge of iteration i is the one recorded in layer i; the edge of     *)
(* the iteration after the last collapse is support_footprint_edge.        *)
(***************************************************************************)
C6_FootprintGrows ==
    \A i \in 1..Len(compressed_layers) :
        LET here == compressed_layers[i][1]
            after == IF i < Len(compressed_layers)
                       THEN compressed_layers[i + 1][1]
                       ELSE support_footprint_edge
        IN  /\ compressed_layers[1][1] = wheel_width * 10000
            /\ after >= here
            /\ after - here = 2 * force_spread
            /\ force_spread > 0 => after > here

C6_Witness ==
    /\ AfterLoop
    /\ force_spread > 0
    /\ Len(compressed_layers) >= 3
    /\ support_footprint_edge > compressed_layers[3][1]

(***************************************************************************)
(* C7: for the heavy vehicle (6000 kg, 10 cm wheel, 4 wheels, 5 degrees)   *)
(* force_per_wheel is 2400 N, the downward force at depth 0 is 24 N/cm2,   *)
(* depth 0 collapses, every depth below collapses while its bearing        *)
(* capacity is below the load, and the scan stops at depth 9, the first    *)
(* depth that bears the load: exactly 9 layers are compressed.             *)
(***************************************************************************)
C7_HeavyVehicleStopsAtNine ==
    HeavyVehicle =>
        /\ pc \notin {"scenario", "forces"} => force_per_wheel = 240000
        /\ Len(compressed_layers) >= 1 => compressed_layers[1][3] = 24000
        /\ Len(compressed_layers) <= 9
        /\ \A i \in 1..Len(compressed_layers) :
               bearing_cap[i] < compressed_layers[i][3]
        /\ AfterLoop =>
               /\ StoppedBySupport
               /\ Len(compressed_layers) = 9
               /\ first_uncompressed_layer = 9
               /\ depth = 9
               /\ bearing_cap[10] >= downward_force

C7_Witness ==
    /\ HeavyVehicle
    /\ pc = "done"
    /\ Len(compressed_layers) = 9
    /\ first_uncompressed_layer = 9

(***************************************************************************)
(* C8: in every run the scan leaves Collapsing (pc = "compress") exactly   *)
(* once, at the first depth whose bearing capacity is >= the downward      *)
(* force; once it has left, no depth is processed, no layer appended, and  *)
(* total_compression, support_footprint_edge and the pressure extremes     *)
(* stay as they are.                                                       *)
(***************************************************************************)
C8_StopsOnceAtFirstSupport ==
    [][ /\ (pc = "compress" /\ pc' # "compress") =>
               /\ next_depth < max_depth
               /\ bearing_cap[next_depth + 1] >= downward_force'
               /\ first_uncompressed_layer' = next_depth
               /\ \A i \in 1..next_depth :
                      bearing_cap[i] < compressed_layers[i][3]
        /\ AfterLoop =>
               /\ pc' # "compress"
               /\ depth' = depth
               /\ next_depth' = next_depth
               /\ compressed_layers' = compressed_layers
               /\ total_compression' = total_compression
               /\ support_footprint_edge' = support_footprint_edge
               /\ max_pressure' = max_pressure
               /\ min_pressure' = min_pressure
               /\ first_uncompressed_layer' = first_uncompressed_layer ]_vars

(***************************************************************************)
(* C9, as claimed: after the loop max_pressure is the largest and          *)
(* min_pressure the smallest downward_force computed over the processed    *)
(* depths, for any positive wheel_width and force_per_wheel.               *)
(***************************************************************************)
C9_Original ==
    AfterLoop =>
        /\ max_pressure = MaxOf(ComputedForces)
        /\ min_pressure = MinOf(ComputedForces)

(***************************************************************************)
(* C9, amended: after the loop max_pressure is the largest downward_force  *)
(* computed, min_pressure is the smallest of the computed forces and the   *)
(* initial 10000, and every appended layer's appliedPressure lies in       *)
(* [min_pressure, max_pressure].                                           *)
(***************************************************************************)
C9_PressureExtremes ==
    AfterLoop =>
        /\ max_pressure = MaxOf(ComputedForces)
        /\ min_pressure = MinOf(ComputedForces \cup {min_pressure_init})
        /\ \A i \in 1..Len(compressed_layers) :
               /\ min_pressure <= compressed_layers[i][3]
               /\ compressed_layers[i][3] <= max_pressure

C9_Witness ==
    /\ AfterLoop
    /\ Len(compressed_layers) >= 2
    /\ min_pressure < max_pressure
    /\ min_pressure < min_pressure_init
    /\ min_pressure = downward_force

(***************************************************************************)
(* C10: at the start of every iteration of the compression loop            *)
(* compressed_layers holds one entry per depth 0..depth-1, surface first;  *)
(* when the loop stops because a layer bears the load,                     *)
(* first_uncompressed_layer is the number of compressed layers.            *)
(***************************************************************************)
C10_LayersCountDepth ==
    /\ pc = "compress" =>
           /\ Len(compressed_layers) = next_depth
           /\ \A i \in 1..Len(compressed_layers) :
                  /\ compressed_layers[i][1] =
                         wheel_width * 10000 + (i - 1) * 2 * force_spread
                  /\ compressed_layers[i][2] * grain_density <= density[i] * 1000
                  /\ density[i] * 1000
                         < (compressed_layers[i][2] + 1) * grain_density
    /\ StoppedBySupport => first_uncompressed_layer = Len(compressed_layers)

C10_Witness ==
    /\ StoppedBySupport
    /\ Len(compressed_layers) >= 2
    /\ first_uncompressed_layer = Len(compressed_layers)

====
